---- MODULE Spec2Model ----
(***************************************************************************)
(* Model of lab-parser: the .lab (binary skeletal animation) to COLLADA    *)
(* converter.  The state is the AnimDataBone object of src/anim/bone.rs    *)
(* together with the input file, its cursor and the output file of         *)
(* src/main.rs; there is one action per call made by main and by           *)
(* AnimDataBone::load_from_file, and one per public lookup.                *)
(*                                                                         *)
(* Representation.  A byte is a number in 0..255.  A u32 is held as its    *)
(* 32-bit pattern read as a two's complement number, because TLC's         *)
(* integers are 32 bits wide: 0 .. 2^31-1 are themselves and u32::MAX is   *)
(* -1.  An f32 is held as its bit pattern (the same number as the u32 at   *)
(* that place), so two floats are equal exactly when their bytes are.      *)
(* Option<T> is a sequence: <<>> is None and <<x>> is Some(x).  A panic    *)
(* (unwrap on Err/None, an index out of range, panic!) ends the run:       *)
(* pc = "panicked" and err says what failed.                               *)
(***************************************************************************)
EXTENDS Integers, Sequences, FiniteSets, TLC

\* ---------------------------------------------------------------- bounds
MaxBones == 2
MaxFrames == 1
MaxDummies == 2

\* ------------------------------------------------------ program constants
MIN_VERSION == 4010
HEADER_OFFSET == 4
NAME_LEN == 64
MAT44_BYTES == 64
MAT43_BYTES == 48
VEC3_BYTES == 12
QUAT_BYTES == 16
U32_MAX == -1
F32_ZERO == 0
F32_ONE == 1065353216
FRAME_RATE == 25

None == <<>>
Some(x) == <<x>>

\* The sequence s with every element computed once: TLC computes the
\* elements of [i \in 1..n |-> e] anew each time one is read.
Built(s) == s \o <<>>

\* ------------------------------------------------------------ byte reading
\* io::Read::read_exact / ReadBytesExt::read_*: Ok only when n more bytes exist.
CanRead(f, p, n) == p + n <= Len(f)

\* read_u16::<LittleEndian> at byte offset p (0-based).
U16At(f, p) == f[p + 1] + 256 * f[p + 2]

\* read_u32::<LittleEndian> at byte offset p (0-based), as a 32-bit pattern.
U32At(f, p) ==
  LET low == f[p + 1] + 256 * f[p + 2] + 65536 * f[p + 3]
  IN  IF f[p + 4] >= 128
        THEN (low + 16777216 * (f[p + 4] - 128)) - 2147483647 - 1
        ELSE low + 16777216 * f[p + 4]

\* bincode's little-endian f32 at byte offset p: the bit pattern.
F32At(f, p) == U32At(f, p)

\* `x as usize` used as an index into a Vec of length n: in range or a panic.
IndexOk(x, n) == x >= 0 /\ x < n

\* ------------------------------------------------------------ matrices
\* cgmath Matrix4::new(c0r0, c0r1, c0r2, c0r3, c1r0, ...): column-major; a is
\* the 16 arguments in call order, cols is <<column 0, .., column 3>>.
Matrix4_new(a) ==
  [cols |-> << <<a[1], a[2], a[3], a[4]>>, <<a[5], a[6], a[7], a[8]>>,
               <<a[9], a[10], a[11], a[12]>>, <<a[13], a[14], a[15], a[16]>> >>]

\* SquareMatrix::identity()
Matrix4_identity ==
  Matrix4_new(<<F32_ONE, F32_ZERO, F32_ZERO, F32_ZERO,
                F32_ZERO, F32_ONE, F32_ZERO, F32_ZERO,
                F32_ZERO, F32_ZERO, F32_ONE, F32_ZERO,
                F32_ZERO, F32_ZERO, F32_ZERO, F32_ONE>>)

\* Matrix4::new called with mat[0][0], mat[0][1], mat[0][2], mat[0][3],
\* mat[1][0], ...: the array passed in its own order.
lwMatrix44_new_row_order(mat) ==
  Matrix4_new(<<mat[1][1], mat[1][2], mat[1][3], mat[1][4],
                mat[2][1], mat[2][2], mat[2][3], mat[2][4],
                mat[3][1], mat[3][2], mat[3][3], mat[3][4],
                mat[4][1], mat[4][2], mat[4][3], mat[4][4]>>)

\* lwMatrix44::new(mat): mat is [[f32; 4]; 4], mat[r][c] (1-based here).
lwMatrix44_new(mat) ==
  Matrix4_new(<<mat[1][1], mat[2][1], mat[3][1], mat[4][1],
                mat[1][2], mat[2][2], mat[3][2], mat[4][2],
                mat[1][3], mat[2][3], mat[3][3], mat[4][3],
                mat[1][4], mat[2][4], mat[3][4], mat[4][4]>>)

\* lwMatrix44::default(): lwMatrix44::new of sixteen 0.0
lwMatrix44_default ==
  lwMatrix44_new([r \in 1..4 |-> [c \in 1..4 |-> F32_ZERO]])

\* lwMatrix43 { matrix: Default::default() }: twelve 0.0
lwMatrix43_default == [r \in 1..4 |-> [c \in 1..3 |-> F32_ZERO]]

\* lwMatrix43::get_matrix4(&self): m is [[f32; 3]; 4], m[r][c] (1-based here).
get_matrix4(m) ==
  Matrix4_new(<<m[1][1], m[2][1], m[3][1], m[4][1],
                m[1][2], m[2][2], m[3][2], m[4][2],
                m[1][3], m[2][3], m[3][3], m[4][3],
                F32_ZERO, F32_ZERO, F32_ZERO, F32_ONE>>)

\* bincode::deserialize::<[[f32; 4]; 4]> of the 64 bytes at offset p.
Decode44(f, p) == [r \in 1..4 |-> [c \in 1..4 |-> F32At(f, p + 4 * (4 * (r - 1) + (c - 1)))]]

\* bincode::deserialize::<lwMatrix43> of the 48 bytes at offset p.
Decode43(f, p) == [r \in 1..4 |-> [c \in 1..3 |-> F32At(f, p + 4 * (3 * (r - 1) + (c - 1)))]]

\* Matrix4::from(quat) * Matrix4::from_translation(offset): the product is
\* f32 arithmetic on the seven components; it is kept as the term it is
\* computed from, which determines it.
QuatPosMatrix(quat, offset) == [rotation |-> quat, translation |-> offset]

\* matrix[c][r] of a Matrix4 (c, r 0-based as in the source).
MatElem(m, c, r) ==
  IF "cols" \in DOMAIN m THEN m.cols[c + 1][r + 1]
  ELSE [of |-> m, col |-> c, row |-> r]

\* ------------------------------------------------------------ input files
\* The bytes of a u32 pattern, little-endian (the inverse of U32At).
LE32(n) ==
  LET m == IF n < 0 THEN n + 2147483647 + 1 ELSE n
  IN  <<m % 256, (m \div 256) % 256, (m \div 65536) % 256,
        (m \div 16777216) + (IF n < 0 THEN 128 ELSE 0)>>

\* A 64-byte name buffer for bone i: "B <i>" padded with nulls; "B<i>", a
\* null and then non-null bytes; 64 non-null bytes; a byte that is no UTF-8.
NameSchemes == {"plain", "junk", "full", "bad"}
NameBuf(scheme, i) ==
  [k \in 1..NAME_LEN |->
     CASE scheme = "plain" -> IF k = 1 THEN 66 ELSE IF k = 2 THEN 32
                              ELSE IF k = 3 THEN 48 + i ELSE 0
       [] scheme = "junk"  -> IF k = 1 THEN 66 ELSE IF k = 2 THEN 48 + i
                              ELSE IF k = 3 THEN 0 ELSE 67
       [] scheme = "full"  -> 65 + i
       [] OTHER            -> IF k = 1 THEN 255 ELSE IF k = 2 THEN 48 + i ELSE 0]

\* The on-disk value of the key encoding: 1, 2, 3 are the encodings.
KeyTypeValues == {0, 1, 2, 3, 4, 257}
\* Bytes of key data one bone has in a well-formed file of encoding k.
KeyBytesPerBone(k, frames) ==
  CASE k = 1 -> frames * MAT43_BYTES
    [] k = 2 -> frames * MAT44_BYTES
    [] k = 3 -> frames * (VEC3_BYTES + QUAT_BYTES)
    [] OTHER -> 0

BoneRecordBytes == NAME_LEN + 4 + 4
DummyRecordBytes == 4 + 4 + MAT44_BYTES
HeaderEnd == HEADER_OFFSET + 16

\* Offsets of the sections of a well-formed file with these header values.
InvmatStart(bones) == HeaderEnd + bones * BoneRecordBytes
DummyStart(bones) == InvmatStart(bones) + bones * MAT44_BYTES
KeyStart(bones, dummies) == DummyStart(bones) + dummies * DummyRecordBytes
RequiredLen(bones, frames, dummies, k) ==
  KeyStart(bones, dummies) + bones * KeyBytesPerBone(k, frames)

\* The sequences of a sequence, one after the other.
RECURSIVE Flatten(_)
Flatten(seqs) ==
  LET s == Built(seqs)
  IN  IF Len(s) = 0 THEN <<>> ELSE Head(s) \o Flatten(Tail(s))

\* A well-formed file: version, two padding bytes, the header, the bone
\* table, and every float byte tagged by its own offset so that floats at
\* different places differ.  table[i] = [name, id, parent_id], dums[j] =
\* [id, parent_bone_id].
FileImage(version, frames, k, table, dums) ==
  LET bones == Len(table)
      dummies == Len(dums)
      head == <<version % 256, version \div 256, 170, 187>>
                \o LE32(bones) \o LE32(frames) \o LE32(dummies) \o LE32(k)
      records == Flatten([i \in 1..bones |->
                   table[i].name \o LE32(table[i].id) \o LE32(table[i].parent_id)])
      markers == Flatten([j \in 1..dummies |->
                   LE32(dums[j].id) \o LE32(dums[j].parent_bone_id)])
      invmat == InvmatStart(bones)
      dummy == DummyStart(bones)
      key == KeyStart(bones, dummies)
      ByteAt(off) ==
        IF off >= key THEN off % 251
        ELSE IF off < HeaderEnd THEN head[off + 1]
        ELSE IF off < invmat THEN records[off - HeaderEnd + 1]
        ELSE IF off >= dummy /\ (off - dummy) % DummyRecordBytes < 8 THEN
          markers[((off - dummy) \div DummyRecordBytes) * 8
                    + ((off - dummy) % DummyRecordBytes) + 1]
        ELSE off % 251
  IN  Built([n \in 1..RequiredLen(bones, frames, dummies, k) |-> ByteAt(n - 1)])

\* Bone tables.  ChainTable: ids are positions, bone 0 is the root and bone
\* i hangs under bone i-1.
ChainTable(bones, scheme) ==
  [i \in 1..bones |->
     [name |-> NameBuf(scheme, i - 1), id |-> i - 1,
      parent_id |-> IF i = 1 THEN U32_MAX ELSE i - 2]]

\* Any parents (the sentinel, a position of the table, or one past it) with
\* ids that are the positions, the positions reversed, the positions plus
\* one, or all 0.
IdSchemes == {"dense", "reversed", "shifted", "same"}
ParentChoices(bones) == {U32_MAX} \cup 0..bones
FreeTables(bones) ==
  { [i \in 1..bones |->
       [name |-> NameBuf("plain", i - 1),
        id |-> CASE ids = "dense" -> i - 1
                 [] ids = "reversed" -> bones - i
                 [] ids = "shifted" -> i
                 [] OTHER -> 0,
        parent_id |-> parents[i]]] :
    ids \in IdSchemes, parents \in [1..bones -> ParentChoices(bones)] }

\* Dummy markers: marker j has id 10 + j and hangs under bone 0, or under
\* bone j mod 2.
DummyLists(dummies) ==
  { [j \in 1..dummies |->
       [id |-> 10 + j, parent_bone_id |-> IF spread THEN (j - 1) % 2 ELSE 0]] :
    spread \in BOOLEAN }

FrameNums == (0..MaxFrames) \cup {MAT43_BYTES, MAT44_BYTES}

\* A file cut to n bytes.
Truncate(f, n) == SubSeq(f, 1, n)
CutLens(f) == {Len(f), Len(f) - 1, Len(f) \div 2, HeaderEnd - 1, 1}

\* The input files of the model: every encoding, frame count and cut on a
\* chain skeleton; every bone table on a quaternion file of one frame; every
\* kind of name; a file of an older version.
AllCuts(files) == UNION { { Truncate(f, n) : n \in CutLens(f) } : f \in files }
AllDummyLists == UNION { DummyLists(d) : d \in 0..MaxDummies }
EncodingFiles ==
  AllCuts({ FileImage(MIN_VERSION, frames, k, ChainTable(bones, "plain"), dums) :
              frames \in FrameNums, k \in KeyTypeValues, bones \in 0..MaxBones,
              dums \in AllDummyLists })
HierarchyFiles ==
  { FileImage(MIN_VERSION, 1, 3, table, dums) :
      table \in UNION { FreeTables(b) : b \in 0..MaxBones }, dums \in AllDummyLists }
NameFiles ==
  { FileImage(MIN_VERSION, 1, k, ChainTable(bones, scheme), <<>>) :
      k \in {2, 3}, bones \in 1..MaxBones, scheme \in NameSchemes }
OldFiles ==
  { FileImage(MIN_VERSION - 1, 1, 3, ChainTable(bones, "plain"), <<>>) :
      bones \in 0..MaxBones }
\* Matrix files whose stored frame-0 matrix of every bone is the identity:
\* the 4x3 rows (1,0,0), (0,1,0), (0,0,1), (0,0,0), or the 4x4 identity.
F32Bytes(x) == IF x = F32_ONE THEN <<0, 0, 128, 63>> ELSE <<0, 0, 0, 0>>
IdentityBytes(k) ==
  LET width == IF k = 1 THEN 3 ELSE 4
  IN  [n \in 1..(4 * 4 * width) |->
         F32Bytes(IF ((n - 1) \div 4) \div width = ((n - 1) \div 4) % width
                    THEN F32_ONE ELSE F32_ZERO)[((n - 1) % 4) + 1]]
WithIdentityKeys(f, bones, frames, k) ==
  LET identity == Built(IdentityBytes(k))
      key == KeyStart(bones, 0)
      stride == KeyBytesPerBone(k, frames)
  IN  Built([n \in 1..Len(f) |->
               IF n - 1 >= key /\ ((n - 1) - key) % stride < Len(identity)
                 THEN identity[(((n - 1) - key) % stride) + 1] ELSE f[n]])
IdentityFiles ==
  { WithIdentityKeys(FileImage(MIN_VERSION, frames, k, ChainTable(bones, "plain"), <<>>),
                     bones, frames, k) :
      frames \in {MAT43_BYTES, MAT44_BYTES}, k \in {1, 2}, bones \in 1..MaxBones }
\* A well-formed table whose ids are not the positions: the records hold
\* ids 1, 2, 0; bone 0 is the root, bone 2 hangs under bone 0 and bone 1
\* under bone 2.
RotatedTable ==
  << [name |-> NameBuf("plain", 1), id |-> 1, parent_id |-> 2],
     [name |-> NameBuf("plain", 2), id |-> 2, parent_id |-> 0],
     [name |-> NameBuf("plain", 0), id |-> 0, parent_id |-> U32_MAX] >>
RotatedFiles ==
  { FileImage(MIN_VERSION, 1, 3, RotatedTable, dums) : dums \in AllDummyLists }
InputFiles == EncodingFiles \cup HierarchyFiles \cup NameFiles \cup OldFiles \cup IdentityFiles
               \cup RotatedFiles

\* ------------------------------------------------------------------ state
VARIABLES
  file,        \* the bytes of the input file
  pos,         \* the cursor of the open input File
  pc,          \* the call main (or load_from_file) makes next; "done"; "panicked"
  err,         \* what the run panicked on
  header,      \* AnimDataBone.header
  base_seq,    \* AnimDataBone.base_seq
  invmat_seq,  \* AnimDataBone.invmat_seq
  dummy_seq,   \* AnimDataBone.dummy_seq: parent bone id -> markers
  key_seq,     \* AnimDataBone.key_seq
  position_matrices,        \* AnimDataBone.position_matrices
  transformation_matrices,  \* AnimDataBone.transformation_matrices
  bone_map,    \* AnimDataBone.bone_map: key -> Joint
  root_joint,  \* AnimDataBone.root_joint: Option of a key of bone_map
  xml_content, \* the String load_from_file returns, as XML writer events
  out_file,    \* the output file: None until created, then the chunks written
  lookup       \* the last public lookup made and what it returned

vars == <<file, pos, pc, err, header, base_seq, invmat_seq, dummy_seq, key_seq,
          position_matrices, transformation_matrices, bone_map, root_joint,
          xml_content, out_file, lookup>>

\* BoneInfoKeyType
KeyTypes == {"BoneKeyTypeMat43", "BoneKeyTypeMat44", "BoneKeyTypeQuaternion",
             "BoneKeyTypeInvalid"}

\* BoneInfoHeader::new()
BoneInfoHeader_new ==
  [bone_num |-> 0, frame_num |-> 0, dummy_num |-> 0, key_type |-> "BoneKeyTypeInvalid"]

\* BoneKeyInfo::new()
BoneKeyInfo_new == [mat43_seq |-> None, mat44_seq |-> None, pos_seq |-> None, quat_seq |-> None]

NoError == [kind |-> "", at |-> "", bone |-> None]

\* AnimDataBone::new(), the input file opened by main, no output file.
Init ==
  /\ file \in InputFiles
  /\ pos = 0
  /\ pc = "read_version"
  /\ err = NoError
  /\ header = BoneInfoHeader_new
  /\ base_seq = <<>>
  /\ invmat_seq = <<>>
  /\ dummy_seq = <<>>
  /\ key_seq = <<>>
  /\ position_matrices = <<>>
  /\ transformation_matrices = <<>>
  /\ bone_map = <<>>
  /\ root_joint = None
  /\ xml_content = None
  /\ out_file = None
  /\ lookup = None

\* The same calls with the output file created before load_from_file runs.
Pipeline_output_first ==
  <<"read_version", "open_output",
    "load_header", "load_base_seq", "load_invmat_seq", "load_dummy_seq", "load_key_seq",
    "generate_position_matrices_at_rest",
    "generate_transformation_matrices_for_all_frames",
    "generate_joint_structure",
    "write_declaration", "write_content", "done">>

\* The calls of main's "lab2dae" branch (src/main.rs) and, between the
\* version check and the creation of the output file, those of
\* AnimDataBone::load_from_file, in program order.
Pipeline ==
  <<"read_version",
    "load_header", "load_base_seq", "load_invmat_seq", "load_dummy_seq", "load_key_seq",
    "generate_position_matrices_at_rest",
    "generate_transformation_matrices_for_all_frames",
    "generate_joint_structure",
    "open_output", "write_declaration", "write_content", "done">>

StepIndex(step) == CHOOSE i \in 1..Len(Pipeline) : Pipeline[i] = step
\* The call that follows `step`.
After(step) == Pipeline[StepIndex(step) + 1]

\* A panic: the process ends where it is; nothing else changes.
Panic(kind, bone) ==
  /\ pc' = "panicked"
  /\ err' = [kind |-> kind, at |-> pc, bone |-> bone]

data == <<header, base_seq, invmat_seq, dummy_seq, key_seq, position_matrices,
          transformation_matrices, bone_map, root_joint, xml_content>>

\* main: read_u16 of the version and the MIN_VERSION check.
ReadVersion ==
  /\ pc = "read_version"
  /\ IF ~CanRead(file, 0, 2) THEN Panic("io", None) /\ UNCHANGED pos
     ELSE IF U16At(file, 0) < MIN_VERSION THEN Panic("version", None) /\ pos' = 2
     ELSE pc' = After("read_version") /\ pos' = 2 /\ UNCHANGED err
  /\ UNCHANGED <<file, data, out_file, lookup>>

\* The match with the encodings numbered from 0.
DecodeKeyType_from_zero(v) ==
  CASE v = 0 -> "BoneKeyTypeMat43"
    [] v = 1 -> "BoneKeyTypeMat44"
    [] v = 2 -> "BoneKeyTypeQuaternion"
    [] OTHER -> "BoneKeyTypeInvalid"

\* The header as load_header decodes it: seek to 4, four u32, the match.
DecodeKeyType(v) ==
  CASE v = 1 -> "BoneKeyTypeMat43"
    [] v = 2 -> "BoneKeyTypeMat44"
    [] v = 3 -> "BoneKeyTypeQuaternion"
    [] OTHER -> "BoneKeyTypeInvalid"

\* load_header with SeekFrom::Current(2) for SeekFrom::Start(4): the same
\* bytes on the call main's pipeline makes, others from any later cursor.
load_header_seek_current(f) ==
  IF ~CanRead(f, pos + 2, 16) THEN [ok |-> FALSE]
  ELSE [ok |-> TRUE, pos |-> pos + 2 + 16,
        header |-> [bone_num |-> U32At(f, pos + 2),
                    frame_num |-> U32At(f, pos + 2 + 4),
                    dummy_num |-> U32At(f, pos + 2 + 8),
                    key_type |-> DecodeKeyType(U32At(f, pos + 2 + 12))]]

load_header_result(f) ==
  IF ~CanRead(f, HEADER_OFFSET, 16) THEN [ok |-> FALSE]
  ELSE [ok |-> TRUE, pos |-> HEADER_OFFSET + 16,
        header |-> [bone_num |-> U32At(f, HEADER_OFFSET),
                    frame_num |-> U32At(f, HEADER_OFFSET + 4),
                    dummy_num |-> U32At(f, HEADER_OFFSET + 8),
                    key_type |-> DecodeKeyType(U32At(f, HEADER_OFFSET + 12))]]

LoadHeader ==
  /\ pc = "load_header"
  /\ LET r == load_header_result(file)
     IN  IF r.ok
           THEN /\ header' = r.header /\ pos' = r.pos
                /\ pc' = After("load_header") /\ UNCHANGED err
           ELSE Panic("io", None) /\ UNCHANGED <<header, pos>>
  /\ UNCHANGED <<file, base_seq, invmat_seq, dummy_seq, key_seq, position_matrices,
                 transformation_matrices, bone_map, root_joint, xml_content,
                 out_file, lookup>>

\* load_base_seq's loop from record k on: name, id, parent_id per record.
RECURSIVE base_loop(_, _, _, _, _)
base_loop(f, p, k, n, acc) ==
  IF k = n THEN [ok |-> TRUE, pos |-> p, seq |-> acc]
  ELSE IF ~(CanRead(f, p, NAME_LEN) /\ CanRead(f, p + NAME_LEN, 4)
            /\ CanRead(f, p + NAME_LEN + 4, 4))
    THEN [ok |-> FALSE, index |-> k]
  ELSE base_loop(f, p + NAME_LEN + 8, k + 1, n,
         Append(acc, [name |-> SubSeq(f, p + 1, p + NAME_LEN),
                      id |-> U32At(f, p + NAME_LEN),
                      parent_id |-> U32At(f, p + NAME_LEN + 4)]))

LoadBaseSeq ==
  /\ pc = "load_base_seq"
  /\ LET r == base_loop(file, pos, 0, header.bone_num, base_seq)
     IN  IF r.ok
           THEN /\ base_seq' = r.seq /\ pos' = r.pos
                /\ pc' = After("load_base_seq") /\ UNCHANGED err
           ELSE Panic("io", Some(r.index)) /\ UNCHANGED <<base_seq, pos>>
  /\ UNCHANGED <<file, header, invmat_seq, dummy_seq, key_seq, position_matrices,
                 transformation_matrices, bone_map, root_joint, xml_content,
                 out_file, lookup>>

\* load_invmat_seq's loop: 64 bytes per bone, bincode, lwMatrix44::new.
RECURSIVE invmat_loop(_, _, _, _, _)
invmat_loop(f, p, k, n, acc) ==
  IF k = n THEN [ok |-> TRUE, pos |-> p, seq |-> acc]
  ELSE IF ~CanRead(f, p, MAT44_BYTES) THEN [ok |-> FALSE, index |-> k]
  ELSE invmat_loop(f, p + MAT44_BYTES, k + 1, n,
                   Append(acc, lwMatrix44_new(Decode44(f, p))))

LoadInvmatSeq ==
  /\ pc = "load_invmat_seq"
  /\ LET r == invmat_loop(file, pos, 0, header.bone_num, invmat_seq)
     IN  IF r.ok
           THEN /\ invmat_seq' = r.seq /\ pos' = r.pos
                /\ pc' = After("load_invmat_seq") /\ UNCHANGED err
           ELSE Panic("io", Some(r.index)) /\ UNCHANGED <<invmat_seq, pos>>
  /\ UNCHANGED <<file, header, base_seq, dummy_seq, key_seq, position_matrices,
                 transformation_matrices, bone_map, root_joint, xml_content,
                 out_file, lookup>>

\* HashMap<u32, Vec<_>>: push v to the Vec at key k, inserting vec![v] first.
MapPush(m, k, v) ==
  IF k \in DOMAIN m THEN [m EXCEPT ![k] = Append(@, v)]
  ELSE [x \in DOMAIN m \cup {k} |-> IF x = k THEN <<v>> ELSE m[x]]

\* load_dummy_seq's loop: id, parent_bone_id, 64 bytes; keyed by parent id.
RECURSIVE dummy_loop(_, _, _, _, _)
dummy_loop(f, p, k, n, acc) ==
  IF k = n THEN [ok |-> TRUE, pos |-> p, map |-> acc]
  ELSE IF ~(CanRead(f, p, 4) /\ CanRead(f, p + 4, 4) /\ CanRead(f, p + 8, MAT44_BYTES))
    THEN [ok |-> FALSE, index |-> k]
  ELSE dummy_loop(f, p + 8 + MAT44_BYTES, k + 1, n,
         MapPush(acc, U32At(f, p + 4),
                 [id |-> U32At(f, p), parent_bone_id |-> U32At(f, p + 4),
                  mat |-> lwMatrix44_new(Decode44(f, p + 8))]))

LoadDummySeq ==
  /\ pc = "load_dummy_seq"
  /\ LET r == dummy_loop(file, pos, 0, header.dummy_num, dummy_seq)
     IN  IF r.ok
           THEN /\ dummy_seq' = r.map /\ pos' = r.pos
                /\ pc' = After("load_dummy_seq") /\ UNCHANGED err
           ELSE Panic("io", Some(r.index)) /\ UNCHANGED <<dummy_seq, pos>>
  /\ UNCHANGED <<file, header, base_seq, invmat_seq, key_seq, position_matrices,
                 transformation_matrices, bone_map, root_joint, xml_content,
                 out_file, lookup>>

\* vec![x; n] with one element replaced
VecOf(x, n) == [j \in 1..n |-> x]

\* One bone of the Mat43 branch of load_key_seq: a buffer of frame_num BYTES
\* is read, one lwMatrix43 is deserialized from it (bincode needs 48 bytes
\* and ignores the rest) and stored at index 0 of a Vec of frame_num
\* default matrices.
mat43_bone(f, p, frames) ==
  IF ~CanRead(f, p, frames) THEN [ok |-> FALSE, kind |-> "io"]
  ELSE IF frames < MAT43_BYTES THEN [ok |-> FALSE, kind |-> "bincode"]
  ELSE [ok |-> TRUE, pos |-> p + frames,
        key |-> [BoneKeyInfo_new EXCEPT
                   !.mat43_seq = Some([VecOf(lwMatrix43_default, frames)
                                         EXCEPT ![1] = Decode43(f, p)])]]

\* One bone of the Mat44 branch: the same with a [[f32; 4]; 4] of 64 bytes.
mat44_bone(f, p, frames) ==
  IF ~CanRead(f, p, frames) THEN [ok |-> FALSE, kind |-> "io"]
  ELSE IF frames < MAT44_BYTES THEN [ok |-> FALSE, kind |-> "bincode"]
  ELSE [ok |-> TRUE, pos |-> p + frames,
        key |-> [BoneKeyInfo_new EXCEPT
                   !.mat44_seq = Some([VecOf(lwMatrix44_default, frames)
                                         EXCEPT ![1] = lwMatrix44_new(Decode44(f, p))])]]

\* Vector3::new(d[0], d[1], d[2]) of the three floats at p.
ReadPos(f, p) == <<F32At(f, p), F32At(f, p + 4), F32At(f, p + 8)>>

\* Quaternion::new called with (d[0], d[1], d[2], d[3]): the stored order
\* taken for the in-memory order.
ReadQuat_stored_order(f, p) ==
  [w |-> F32At(f, p), x |-> F32At(f, p + 4), y |-> F32At(f, p + 8), z |-> F32At(f, p + 12)]

\* Quaternion::new(w, xi, yj, zk) called with (d[3], d[0], d[1], d[2]) of the
\* four floats d at p.
ReadQuat(f, p) ==
  [w |-> F32At(f, p + 12), x |-> F32At(f, p), y |-> F32At(f, p + 4), z |-> F32At(f, p + 8)]

\* One bone of the Quaternion branch: frame_num reads of 12 bytes, then
\* frame_num reads of 16 bytes; the first read that comes short panics.
quat_bone(f, p, frames) ==
  IF ~CanRead(f, p, frames * (VEC3_BYTES + QUAT_BYTES)) THEN [ok |-> FALSE, kind |-> "io"]
  ELSE [ok |-> TRUE, pos |-> p + frames * (VEC3_BYTES + QUAT_BYTES),
        key |-> [BoneKeyInfo_new EXCEPT
                   !.pos_seq = Some([j \in 1..frames |->
                                       ReadPos(f, p + (j - 1) * VEC3_BYTES)]),
                   !.quat_seq = Some([j \in 1..frames |->
                                       ReadQuat(f, p + frames * VEC3_BYTES
                                                     + (j - 1) * QUAT_BYTES)])]]

key_bone(f, p, frames, key_type) ==
  CASE key_type = "BoneKeyTypeMat43" -> mat43_bone(f, p, frames)
    [] key_type = "BoneKeyTypeMat44" -> mat44_bone(f, p, frames)
    [] OTHER -> quat_bone(f, p, frames)

\* load_key_seq's loop over the bones, for the three encodings that read.
RECURSIVE key_loop(_, _, _, _, _, _, _)
key_loop(f, p, k, n, frames, key_type, acc) ==
  IF k = n THEN [ok |-> TRUE, pos |-> p, seq |-> acc]
  ELSE LET r == key_bone(f, p, frames, key_type)
       IN  IF ~r.ok THEN [ok |-> FALSE, kind |-> r.kind, index |-> k]
           ELSE key_loop(f, r.pos, k + 1, n, frames, key_type, Append(acc, r.key))

\* load_key_seq: BoneKeyTypeInvalid reads nothing and leaves bone_num empty keys.
load_key_seq_result(f, p, h) ==
  IF h.key_type = "BoneKeyTypeInvalid"
    THEN [ok |-> TRUE, pos |-> p, seq |-> VecOf(BoneKeyInfo_new, h.bone_num)]
    ELSE key_loop(f, p, 0, h.bone_num, h.frame_num, h.key_type, <<>>)

LoadKeySeq ==
  /\ pc = "load_key_seq"
  /\ LET r == load_key_seq_result(file, pos, header)
     IN  IF r.ok
           THEN /\ key_seq' = r.seq /\ pos' = r.pos
                /\ pc' = After("load_key_seq") /\ UNCHANGED err
           ELSE Panic(r.kind, Some(r.index)) /\ UNCHANGED <<key_seq, pos>>
  /\ UNCHANGED <<file, header, base_seq, invmat_seq, dummy_seq, position_matrices,
                 transformation_matrices, bone_map, root_joint, xml_content,
                 out_file, lookup>>

\* ------------------------------------------------------------------ names
\* The loop with `continue` for `break`: null bytes are skipped and the
\* bytes after them kept.
name_loop_skip_nulls(buf) == SelectSeq(buf, LAMBDA b : b /= 0)

\* The loop of BoneBaseInfo::get_name: the bytes pushed before the break at
\* the first '\0', all of them when there is none.
name_loop(buf) ==
  LET nulls == { k \in 1..Len(buf) : buf[k] = 0 }
      stop == IF nulls = {} THEN Len(buf) + 1
              ELSE CHOOSE k \in nulls : \A x \in nulls : k <= x
  IN  SubSeq(buf, 1, stop - 1)

Cont(b) == b >= 128 /\ b <= 191

\* String::from_utf8 is Ok: s is well-formed UTF-8 from index k (1-based) on.
RECURSIVE utf8_from(_, _)
utf8_from(s, k) ==
  IF k > Len(s) THEN TRUE
  ELSE LET b == s[k]
           has(n) == k + n <= Len(s)
       IN  IF b <= 127 THEN utf8_from(s, k + 1)
           ELSE IF b >= 194 /\ b <= 223
             THEN has(1) /\ Cont(s[k + 1]) /\ utf8_from(s, k + 2)
           ELSE IF b >= 224 /\ b <= 239
             THEN /\ has(2)
                  /\ Cont(s[k + 1]) /\ Cont(s[k + 2])
                  /\ (b = 224 => s[k + 1] >= 160)
                  /\ (b = 237 => s[k + 1] <= 159)
                  /\ utf8_from(s, k + 3)
           ELSE IF b >= 240 /\ b <= 244
             THEN /\ has(3)
                  /\ Cont(s[k + 1]) /\ Cont(s[k + 2]) /\ Cont(s[k + 3])
                  /\ (b = 240 => s[k + 1] >= 144)
                  /\ (b = 244 => s[k + 1] <= 143)
                  /\ utf8_from(s, k + 4)
           ELSE FALSE

\* BoneBaseInfo::get_name: the bytes kept, and unwrap of String::from_utf8.
get_name(buf) ==
  LET name_vec == name_loop(buf)
  IN  IF utf8_from(name_vec, 1) THEN [ok |-> TRUE, name |-> name_vec]
      ELSE [ok |-> FALSE, kind |-> "utf8"]

\* str::replace(" ", "_")
Sanitize(name) == [k \in 1..Len(name) |-> IF name[k] = 32 THEN 95 ELSE name[k]]

\* ------------------------------------------------------------- transforms
\* The body of the match on key_type in generate_position_matrices_at_rest
\* (j = 0) and generate_transformation_matrices_for_all_frames (frame j):
\* the matrix of frame j of one bone's key, or the panic.
LocalMatrix(key, key_type, j) ==
  CASE key_type = "BoneKeyTypeQuaternion" ->
         IF key.quat_seq = None \/ key.pos_seq = None THEN [ok |-> FALSE, kind |-> "track"]
         ELSE IF ~IndexOk(j, Len(key.quat_seq[1])) \/ ~IndexOk(j, Len(key.pos_seq[1]))
           THEN [ok |-> FALSE, kind |-> "index"]
         ELSE [ok |-> TRUE, m |-> QuatPosMatrix(key.quat_seq[1][j + 1], key.pos_seq[1][j + 1])]
    [] key_type = "BoneKeyTypeMat43" ->
         IF key.mat43_seq = None THEN [ok |-> FALSE, kind |-> "track"]
         ELSE IF ~IndexOk(j, Len(key.mat43_seq[1])) THEN [ok |-> FALSE, kind |-> "index"]
         ELSE [ok |-> TRUE, m |-> get_matrix4(key.mat43_seq[1][j + 1])]
    [] key_type = "BoneKeyTypeMat44" ->
         IF key.mat44_seq = None THEN [ok |-> FALSE, kind |-> "track"]
         ELSE IF ~IndexOk(j, Len(key.mat44_seq[1])) THEN [ok |-> FALSE, kind |-> "index"]
         ELSE [ok |-> TRUE, m |-> key.mat44_seq[1][j + 1]]
    [] OTHER -> [ok |-> TRUE, m |-> Matrix4_identity]

\* The first index of a sequence of results that is a failure.
FirstBad(rs) == CHOOSE i \in 1..Len(rs) : ~rs[i].ok /\ \A k \in 1..(i - 1) : rs[k].ok
AllOk(rs) == \A i \in 1..Len(rs) : rs[i].ok

\* The rest pose taken from frame 1 (the second frame) of every track.
position_matrices_result_frame_one(keys, h) ==
  LET rs == Built([i \in 1..h.bone_num |-> LocalMatrix(keys[i], h.key_type, 1)])
  IN  IF AllOk(rs) THEN [ok |-> TRUE, seq |-> [i \in 1..h.bone_num |-> rs[i].m]]
      ELSE [ok |-> FALSE, kind |-> rs[FirstBad(rs)].kind, index |-> FirstBad(rs) - 1]

\* generate_position_matrices_at_rest: one matrix per bone, from frame 0.
position_matrices_result(keys, h) ==
  LET rs == Built([i \in 1..h.bone_num |-> LocalMatrix(keys[i], h.key_type, 0)])
  IN  IF AllOk(rs) THEN [ok |-> TRUE, seq |-> [i \in 1..h.bone_num |-> rs[i].m]]
      ELSE [ok |-> FALSE, kind |-> rs[FirstBad(rs)].kind, index |-> FirstBad(rs) - 1]

GeneratePositionMatricesAtRest ==
  /\ pc = "generate_position_matrices_at_rest"
  /\ LET r == position_matrices_result(key_seq, header)
     IN  IF r.ok
           THEN /\ position_matrices' = r.seq
                /\ pc' = After("generate_position_matrices_at_rest")
                /\ UNCHANGED err
           ELSE Panic(r.kind, Some(r.index)) /\ UNCHANGED position_matrices
  /\ UNCHANGED <<file, pos, header, base_seq, invmat_seq, dummy_seq, key_seq,
                 transformation_matrices, bone_map, root_joint, xml_content,
                 out_file, lookup>>

\* generate_transformation_matrices_for_all_frames: per bone, the matrices
\* of frames 0 .. frame_num-1, pushed as one row.
transformation_matrices_result(keys, h) ==
  LET row(i) == Built([j \in 1..h.frame_num |-> LocalMatrix(keys[i], h.key_type, j - 1)])
      pushed(r) == IF AllOk(r) THEN [ok |-> TRUE, row |-> [j \in 1..h.frame_num |-> r[j].m]]
                   ELSE [ok |-> FALSE, kind |-> r[FirstBad(r)].kind]
      rs == Built([i \in 1..h.bone_num |-> pushed(row(i))])
  IN  IF AllOk(rs) THEN [ok |-> TRUE, rows |-> [i \in 1..h.bone_num |-> rs[i].row]]
      ELSE [ok |-> FALSE, kind |-> rs[FirstBad(rs)].kind, index |-> FirstBad(rs) - 1]

GenerateTransformationMatricesForAllFrames ==
  /\ pc = "generate_transformation_matrices_for_all_frames"
  /\ LET r == transformation_matrices_result(key_seq, header)
     IN  IF r.ok
           THEN /\ transformation_matrices' = transformation_matrices \o r.rows
                /\ pc' = After("generate_transformation_matrices_for_all_frames")
                /\ UNCHANGED err
           ELSE Panic(r.kind, Some(r.index)) /\ UNCHANGED transformation_matrices
  /\ UNCHANGED <<file, pos, header, base_seq, invmat_seq, dummy_seq, key_seq,
                 position_matrices, bone_map, root_joint, xml_content,
                 out_file, lookup>>

\* One bone of get_transforms_for_frame, and all of
\* get_transforms_for_frame_and_bone after key_seq[bone]: both Options are
\* unwrapped before the match on key_type.
quat_lookup(key, key_type, frame) ==
  IF key.quat_seq = None \/ key.pos_seq = None THEN [ok |-> FALSE, kind |-> "track"]
  ELSE IF key_type = "BoneKeyTypeQuaternion"
    THEN IF ~IndexOk(frame, Len(key.quat_seq[1])) \/ ~IndexOk(frame, Len(key.pos_seq[1]))
           THEN [ok |-> FALSE, kind |-> "index"]
           ELSE [ok |-> TRUE,
                 m |-> QuatPosMatrix(key.quat_seq[1][frame + 1], key.pos_seq[1][frame + 1])]
    ELSE [ok |-> TRUE, m |-> Matrix4_identity]

\* get_transforms_for_frame(frame)
get_transforms_for_frame(frame) ==
  LET rs == [i \in 1..header.bone_num |->
               IF ~IndexOk(i - 1, Len(key_seq)) \/ ~IndexOk(i - 1, Len(base_seq))
                 THEN [ok |-> FALSE, kind |-> "index"]
               ELSE IF ~get_name(base_seq[i].name).ok THEN [ok |-> FALSE, kind |-> "utf8"]
               ELSE quat_lookup(key_seq[i], header.key_type, frame)]
  IN  IF AllOk(rs) THEN [ok |-> TRUE, value |-> [i \in 1..header.bone_num |-> rs[i].m]]
      ELSE [ok |-> FALSE, kind |-> rs[FirstBad(rs)].kind]

\* get_transforms_for_frame_and_bone(frame, bone)
get_transforms_for_frame_and_bone(frame, bone) ==
  IF ~IndexOk(bone, Len(key_seq)) THEN [ok |-> FALSE, kind |-> "index"]
  ELSE LET r == quat_lookup(key_seq[bone + 1], header.key_type, frame)
       IN  IF r.ok THEN [ok |-> TRUE, value |-> <<r.m>>]
           ELSE [ok |-> FALSE, kind |-> r.kind]

\* ------------------------------------------------------------- joint tree
\* The Joint built for table position i (0-based) by the first loop of
\* generate_joint_structure, or the panic of that iteration.
make_joint(i) ==
  LET current_bone == base_seq[i + 1]
      name == get_name(current_bone.name)
      dummy_objects == IF current_bone.id \in DOMAIN dummy_seq
                         THEN dummy_seq[current_bone.id] ELSE <<>>
  IN  IF ~IndexOk(current_bone.id, Len(position_matrices))
        THEN [ok |-> FALSE, kind |-> "index", bone |-> current_bone.id]
      ELSE IF ~name.ok THEN [ok |-> FALSE, kind |-> "utf8", bone |-> current_bone.id]
      ELSE [ok |-> TRUE,
            joint |-> [bone_id |-> current_bone.id,
                       parent |-> None,
                       bone_name |-> name.name,
                       children |-> <<>>,
                       parent_id |-> current_bone.parent_id,
                       transformation_matrix |-> None,
                       position_matrix |-> Some(position_matrices[current_bone.id + 1]),
                       dummies |-> [d \in 1..Len(dummy_objects) |->
                                      [id |-> dummy_objects[d].id,
                                       parent_id |-> dummy_objects[d].parent_bone_id,
                                       position_matrix |-> Some(dummy_objects[d].mat)]]]]

\* The first loop: bone_map gets key i for table position i.
base_map_result ==
  LET rs == Built([i \in 1..header.bone_num |->
                     IF IndexOk(i - 1, Len(base_seq)) THEN make_joint(i - 1)
                     ELSE [ok |-> FALSE, kind |-> "index", bone |-> i - 1]])
  IN  IF AllOk(rs) THEN [ok |-> TRUE, map |-> [k \in 0..(header.bone_num - 1) |-> rs[k + 1].joint]]
      ELSE [ok |-> FALSE, kind |-> rs[FirstBad(rs)].kind, bone |-> rs[FirstBad(rs)].bone]

\* The key the linking loop looks a joint's parent up with.
ParentKey(joint) == joint.parent_id

\* One iteration of the linking loop, for the joint at key k of map m.
link_one(m, k) ==
  IF m[k].parent_id = U32_MAX THEN [ok |-> TRUE, map |-> m]
  ELSE IF ParentKey(m[k]) \notin DOMAIN m
    THEN [ok |-> FALSE, kind |-> "hierarchy", bone |-> m[k].bone_id]
  ELSE IF ParentKey(m[k]) = k
    THEN [ok |-> FALSE, kind |-> "borrow", bone |-> m[k].bone_id]
  ELSE LET pk == ParentKey(m[k])
       IN  [ok |-> TRUE,
            map |-> [x \in DOMAIN m |->
                       IF x = k /\ x = pk THEN m[x]
                       ELSE IF x = k THEN [m[x] EXCEPT !.parent = Some(pk)]
                       ELSE IF x = pk THEN [m[x] EXCEPT !.children = Append(@, k)]
                       ELSE m[x]]]

\* The linking loop over the keys in the order `order` (a HashMap's
\* iteration order), from its n-th key on.
RECURSIVE link_loop(_, _, _)
link_loop(m, order, n) ==
  IF n > Len(order) THEN [ok |-> TRUE, map |-> m]
  ELSE LET r == link_one(m, order[n])
       IN  IF r.ok THEN link_loop(r.map, order, n + 1) ELSE r

\* The orders a HashMap of these keys may be iterated in.
Orders(keys) ==
  { o \in [1..Cardinality(keys) -> keys] : \A a, b \in 1..Cardinality(keys) : o[a] = o[b] => a = b }

\* -------------------------------------------------------------------- XML
\* XmlWriter events: start_element, write_attribute, write_text, end_element.
Start(name) == [start |-> name]
Attr(key, value) == [attr |-> key, value |-> value]
Text(value) == [text |-> value]
End(name) == [end |-> name]
Element(name, attrs, body) == <<Start(name)>> \o attrs \o body \o <<End(name)>>

\* format!(fmt, arg)
Format(fmt, arg) == [fmt |-> fmt, arg |-> arg]

\* The 16 values write_matrix and write_all_matrices print for one matrix.
MatrixValues(m) ==
  <<MatElem(m, 0, 0), MatElem(m, 0, 1), MatElem(m, 0, 2), MatElem(m, 0, 3),
    MatElem(m, 1, 0), MatElem(m, 1, 1), MatElem(m, 1, 2), MatElem(m, 1, 3),
    MatElem(m, 2, 0), MatElem(m, 2, 1), MatElem(m, 2, 2), MatElem(m, 2, 3),
    MatElem(m, 3, 0), MatElem(m, 3, 1), MatElem(m, 3, 2), MatElem(m, 3, 3)>>

write_matrix(m) ==
  Element("matrix", <<Attr("sid", "transform")>>, <<Text(MatrixValues(m))>>)

\* The loop `for i in 0..matrix.len() - 1`: the last frame is not written.
write_all_matrices_but_last(row) == [i \in 1..(Len(row) - 1) |-> Text(MatrixValues(row[i]))]

write_all_matrices(row) == [i \in 1..Len(row) |-> Text(MatrixValues(row[i]))]

write_dummy_node(dummy) ==
  Element("node",
          <<Attr("id", Format("Dummy_{}", dummy.id)),
            Attr("name", Format("Dummy {}", dummy.id)), Attr("type", "NODE")>>,
          write_matrix(dummy.position_matrix[1]))

\* write_joint_node recurses into every child; `fuel` calls deep it has
\* visited more joints on one path than the map holds, so it is on a cycle
\* of children and never returns (the stack overflows).
RECURSIVE NeverReturns(_, _, _)
NeverReturns(m, k, fuel) ==
  IF fuel = 0 THEN TRUE
  ELSE \E c \in 1..Len(m[k].children) : NeverReturns(m, m[k].children[c], fuel - 1)

RECURSIVE write_joint_node(_, _)
write_joint_node(m, k) ==
  LET joint_data == m[k]
  IN  Element("node",
              <<Attr("id", Sanitize(joint_data.bone_name)),
                Attr("sid", Sanitize(joint_data.bone_name)),
                Attr("name", joint_data.bone_name), Attr("type", "JOINT")>>,
              write_matrix(joint_data.position_matrix[1])
                \o Flatten([d \in 1..Len(joint_data.dummies) |->
                              write_dummy_node(joint_data.dummies[d])])
                \o Flatten([c \in 1..Len(joint_data.children) |->
                              write_joint_node(m, joint_data.children[c])]))

write_asset_data(now) ==
  Element("asset", <<>>,
    Element("contributor", <<>>, Element("author", <<>>, <<Text("Perseus")>>))
      \o Element("created", <<>>, <<Text(now)>>)
      \o Element("up_axis", <<>>, <<Text("Z_UP")>>))

write_visual_scene_data(m, root) ==
  Element("library_visual_scenes", <<>>,
    Element("visual_scene", <<Attr("id", "Scene"), Attr("name", "Scene")>>,
      Element("node",
              <<Attr("id", "Skeleton"), Attr("name", "Skeleton"), Attr("type", "NODE")>>,
              write_joint_node(m, root))))

\* ((i + 1) as f32 / 25.00): the samples counted from 1.
TimeSample_from_one(i) == [num |-> i + 1, den |-> FRAME_RATE]

\* (i as f32 / 25.00).to_string(): the quotient, kept as its two operands.
TimeSample(i) == [num |-> i, den |-> FRAME_RATE]

\* <source> with its array and its <technique_common><accessor><param>.
Source(id, array, array_id, count, values, acc_count, stride, pname, ptype) ==
  Element("source", <<Attr("id", id)>>,
    Element(array, <<Attr("id", array_id), Attr("count", count)>>, values)
      \o Element("technique_common", <<>>,
           Element("accessor",
                   <<Attr("source", Format("#{}", array_id)), Attr("count", acc_count),
                     Attr("stride", stride)>>,
                   Element("param", <<Attr("name", pname), Attr("type", ptype)>>, <<>>))))

Input(semantic, source) ==
  Element("input", <<Attr("semantic", semantic), Attr("source", Format("#{}", source))>>, <<>>)

write_animation_element(bone_index) ==
  LET name == Sanitize(get_name(base_seq[bone_index + 1].name).name)
      id(suffix) == Format(suffix, name)
      frames == header.frame_num
  IN  Element("animation",
        <<Attr("id", id("{}_pose_matrix")), Attr("name", id("{}_pose_matrix"))>>,
        Source(id("{}_pose_matrix-input"), "float_array", id("{}_pose_matrix-input-array"),
               frames, [i \in 1..frames |-> Text(TimeSample(i - 1))],
               frames, 1, "TIME", "float")
          \o Source(id("{}_pose_matrix-output"), "float_array",
                    id("{}_pose_matrix-output-array"),
                    16 * frames, write_all_matrices(transformation_matrices[bone_index + 1]),
                    frames, 16, "TRANSFORM", "float4x4")
          \o Source(id("{}_pose_matrix-interpolation"), "Name_array",
                    id("{}_pose_matrix-interpolation-array"),
                    frames, [i \in 1..frames |-> Text("LINEAR")],
                    frames, 1, "INTERPOLATION", "name")
          \o Element("sampler", <<Attr("id", id("{}_pose_matrix-sampler"))>>,
               Input("INPUT", id("{}_pose_matrix-input"))
                 \o Input("OUTPUT", id("{}_pose_matrix-output"))
                 \o Input("INTERPOLATION", id("{}_pose_matrix-interpolation")))
          \o Element("channel",
                     <<Attr("source", Format("#{}", id("{}_pose_matrix-sampler"))),
                       Attr("target", id("{}/transform"))>>, <<>>))

write_animation_data ==
  Element("library_animations", <<>>,
          Flatten([i \in 1..header.bone_num |-> write_animation_element(i - 1)]))

write_scene_element ==
  Element("scene", <<>>,
          Element("instance_visual_scene", <<Attr("url", "#Scene")>>, <<>>))

\* write_collada_data with write_animation_data called before
\* write_visual_scene_data.
write_collada_data_animations_first(m, root, now) ==
  Element("COLLADA",
          <<Attr("xmlns", "http://www.collada.org/2005/11/COLLADASchema"),
            Attr("version", "1.4.1")>>,
          write_asset_data(now) \o write_animation_data
            \o write_visual_scene_data(m, root) \o write_scene_element)

\* write_collada_data on the linked map m with root key `root`.
write_collada_data(m, root, now) ==
  Element("COLLADA",
          <<Attr("xmlns", "http://www.collada.org/2005/11/COLLADASchema"),
            Attr("version", "1.4.1")>>,
          write_asset_data(now) \o write_visual_scene_data(m, root)
            \o write_animation_data \o write_scene_element)

\* chrono::Utc::now().to_string()
Clock == {"noon", "midnight"}

\* generate_joint_structure: the base map, the links made in the map's
\* iteration order, the root at key 0, and write_collada_data.
GenerateJointStructure ==
  /\ pc = "generate_joint_structure"
  /\ LET b == base_map_result
     IN  IF ~b.ok
           THEN Panic(b.kind, Some(b.bone)) /\ UNCHANGED <<bone_map, root_joint, xml_content>>
           ELSE \E order \in Orders(DOMAIN b.map), now \in Clock :
                  LET l == link_loop(b.map, order, 1)
                  IN  IF ~l.ok
                        THEN /\ Panic(l.kind, Some(l.bone))
                             /\ UNCHANGED <<bone_map, root_joint, xml_content>>
                      ELSE IF 0 \notin DOMAIN l.map
                        THEN /\ Panic("none", None)
                             /\ bone_map' = l.map
                             /\ UNCHANGED <<root_joint, xml_content>>
                      ELSE IF NeverReturns(l.map, 0, Cardinality(DOMAIN l.map))
                        THEN /\ Panic("stack_overflow", None)
                             /\ bone_map' = l.map
                             /\ root_joint' = Some(0)
                             /\ UNCHANGED xml_content
                      ELSE /\ bone_map' = l.map
                           /\ root_joint' = Some(0)
                           /\ xml_content' = Some(write_collada_data(l.map, 0, now))
                           /\ pc' = After("generate_joint_structure")
                           /\ UNCHANGED err
  /\ UNCHANGED <<file, pos, header, base_seq, invmat_seq, dummy_seq, key_seq,
                 position_matrices, transformation_matrices, out_file, lookup>>

\* ------------------------------------------------------------ output file
XmlDeclaration == "<?xml version=\"1.0\" encoding=\"utf-8\"?>\n"

\* main: OpenOptions::new().write(true).truncate(true).create(true).open(..)
\* creates or empties the file, or fails and the unwrap panics.
OpenOutput ==
  /\ pc = "open_output"
  /\ \/ out_file' = Some(<<>>) /\ pc' = After("open_output") /\ UNCHANGED err
     \/ Panic("io", None) /\ UNCHANGED out_file
  /\ UNCHANGED <<file, pos, data, lookup>>

\* main: write_all of the XML declaration; a failed write_all may have
\* written part of its buffer.
WriteDeclaration ==
  /\ pc = "write_declaration"
  /\ \/ /\ out_file' = Some(Append(out_file[1], [all |-> XmlDeclaration]))
        /\ pc' = After("write_declaration") /\ UNCHANGED err
     \/ /\ Panic("io", None)
        /\ out_file' \in {out_file, Some(Append(out_file[1], [part |-> XmlDeclaration]))}
  /\ UNCHANGED <<file, pos, data, lookup>>

\* main: write_all of xml_content.
WriteContent ==
  /\ pc = "write_content"
  /\ \/ /\ out_file' = Some(Append(out_file[1], [all |-> xml_content[1]]))
        /\ pc' = After("write_content") /\ UNCHANGED err
     \/ /\ Panic("io", None)
        /\ out_file' \in {out_file, Some(Append(out_file[1], [part |-> xml_content[1]]))}
  /\ UNCHANGED <<file, pos, data, lookup>>

\* The arguments the lookups are called with: every frame and bone of the
\* dataset and one past the last.
FrameArgs == 0..(MaxFrames + 1)
BoneArgs == 0..(MaxBones + 1)

\* The lookups are public and read-only; they are called on the dataset
\* once load_key_seq has returned.
GetTransformsForFrame ==
  /\ pc = After("load_key_seq")
  /\ \E frame \in FrameArgs :
       lookup' = Some([op |-> "get_transforms_for_frame", frame |-> frame, bone |-> None,
                       result |-> get_transforms_for_frame(frame)])
  /\ UNCHANGED <<file, pos, pc, err, data, out_file>>

GetTransformsForFrameAndBone ==
  /\ pc = After("load_key_seq")
  /\ \E frame \in FrameArgs, bone \in BoneArgs :
       lookup' = Some([op |-> "get_transforms_for_frame_and_bone", frame |-> frame,
                       bone |-> Some(bone),
                       result |-> get_transforms_for_frame_and_bone(frame, bone)])
  /\ UNCHANGED <<file, pos, pc, err, data, out_file>>

\* main's "lab2dae" branch, call by call.
Next ==
  \/ ReadVersion
  \/ LoadHeader
  \/ LoadBaseSeq
  \/ LoadInvmatSeq
  \/ LoadDummySeq
  \/ LoadKeySeq
  \/ GeneratePositionMatricesAtRest
  \/ GenerateTransformationMatricesForAllFrames
  \/ GenerateJointStructure
  \/ OpenOutput
  \/ WriteDeclaration
  \/ WriteContent

Spec == Init /\ [][Next]_vars

\* A caller of the library that loads a file and then makes lookups.
NextLookup ==
  \/ ReadVersion
  \/ LoadHeader
  \/ LoadBaseSeq
  \/ LoadInvmatSeq
  \/ LoadDummySeq
  \/ LoadKeySeq
  \/ GetTransformsForFrame
  \/ GetTransformsForFrameAndBone

SpecLookup == Init /\ [][NextLookup]_vars

\* load_header called a second time on the open file, wherever the cursor
\* is after the sections read so far (as the tests call it on a fresh
\* AnimDataBone, and as a caller re-reading the header would).
ReloadPoints ==
  {"load_base_seq", "load_invmat_seq", "load_dummy_seq", "load_key_seq", After("load_key_seq")}

LoadHeaderAgain ==
  /\ pc \in ReloadPoints
  /\ lookup = None
  /\ LET r == load_header_result(file)
     IN  /\ lookup' = Some([op |-> "load_header", before |-> header, from |-> pos, result |-> r])
         /\ IF r.ok THEN header' = r.header /\ pos' = r.pos /\ UNCHANGED <<pc, err>>
            ELSE Panic("io", None) /\ UNCHANGED <<header, pos>>
  /\ UNCHANGED <<file, base_seq, invmat_seq, dummy_seq, key_seq, position_matrices,
                 transformation_matrices, bone_map, root_joint, xml_content, out_file>>

NextReload ==
  \/ ReadVersion
  \/ LoadHeader
  \/ LoadBaseSeq
  \/ LoadInvmatSeq
  \/ LoadDummySeq
  \/ LoadKeySeq
  \/ LoadHeaderAgain

SpecReload == Init /\ [][NextReload]_vars

\* BoneBaseInfo::get_name called on a name buffer of any content: the
\* buffers are a prefix of at most MaxNamePrefix bytes followed by one
\* byte repeated to the end of the 64.
MaxNamePrefix == 2
NameBytes == {0, 32, 65, 169, 195, 255}
NameFills == {0, 66}
NamePrefixes == UNION { [1..n -> NameBytes] : n \in 0..MaxNamePrefix }
NameBufs ==
  { [k \in 1..NAME_LEN |-> IF k <= Len(p) THEN p[k] ELSE fill] :
      p \in NamePrefixes, fill \in NameFills }

InitName ==
  /\ file = <<>>
  /\ pos = 0
  /\ pc = "get_name"
  /\ err = NoError
  /\ header = BoneInfoHeader_new
  /\ base_seq \in { <<[name |-> buf, id |-> 0, parent_id |-> U32_MAX]>> : buf \in NameBufs }
  /\ invmat_seq = <<>>
  /\ dummy_seq = <<>>
  /\ key_seq = <<>>
  /\ position_matrices = <<>>
  /\ transformation_matrices = <<>>
  /\ bone_map = <<>>
  /\ root_joint = None
  /\ xml_content = None
  /\ out_file = None
  /\ lookup = None

GetName ==
  /\ pc = "get_name"
  /\ lookup' = Some([op |-> "get_name", result |-> get_name(base_seq[1].name)])
  /\ pc' = "returned"
  /\ UNCHANGED <<file, pos, err, data, out_file>>

NextName == GetName

SpecName == InitName /\ [][NextName]_vars

\* One stored matrix taken through lwMatrix43::get_matrix4 or
\* lwMatrix44::new and written by write_matrix.  The records: float n
\* (from 0) is tag + n, and one float (or none) is 1.0.
MaxTag == 9
MatrixRecord(floats, tag, hot) ==
  LET bytes == [n \in 1..floats |-> LE32(IF n = hot THEN F32_ONE ELSE tag + n - 1)]
  IN  [k \in 1..(4 * floats) |-> bytes[((k - 1) \div 4) + 1][((k - 1) % 4) + 1]]
MatrixRecords ==
  { MatrixRecord(floats, tag, hot) : floats \in {12, 16}, tag \in 1..MaxTag, hot \in 0..16 }

InitMatrix ==
  /\ file \in MatrixRecords
  /\ pos = 0
  /\ pc = (IF Len(file) = MAT43_BYTES THEN "get_matrix4" ELSE "lwMatrix44_new")
  /\ err = NoError
  /\ header = BoneInfoHeader_new
  /\ base_seq = <<>>
  /\ invmat_seq = <<>>
  /\ dummy_seq = <<>>
  /\ key_seq = <<>>
  /\ position_matrices = <<>>
  /\ transformation_matrices = <<>>
  /\ bone_map = <<>>
  /\ root_joint = None
  /\ xml_content = None
  /\ out_file = None
  /\ lookup = None

\* mat43[j].get_matrix4() of a decoded 4x3 record, then write_matrix.
GetMatrix4 ==
  /\ pc = "get_matrix4"
  /\ LET m == get_matrix4(Decode43(file, 0))
     IN  lookup' = Some([op |-> "get_matrix4", result |-> m, written |-> MatrixValues(m)])
  /\ pc' = "returned"
  /\ UNCHANGED <<file, pos, err, data, out_file>>

\* lwMatrix44::new of a decoded 4x4 record, then write_matrix.
NewMatrix44 ==
  /\ pc = "lwMatrix44_new"
  /\ LET m == lwMatrix44_new(Decode44(file, 0))
     IN  lookup' = Some([op |-> "lwMatrix44_new", result |-> m, written |-> MatrixValues(m)])
  /\ pc' = "returned"
  /\ UNCHANGED <<file, pos, err, data, out_file>>

NextMatrix == GetMatrix4 \/ NewMatrix44

SpecMatrix == InitMatrix /\ [][NextMatrix]_vars

\* ================================================================ claims
\* The call the run is at, or was at when it panicked.
At == IF pc = "panicked" THEN err.at ELSE pc
\* `step` has returned.
Completed(step) == At \in { Pipeline[i] : i \in 1..Len(Pipeline) } /\ StepIndex(At) > StepIndex(step)

Roots == { k \in DOMAIN bone_map : bone_map[k].parent = None }

\* C1 (as claimed): whenever generate_joint_structure has completed, exactly
\* one joint of bone_map has no parent link and every other joint's parent
\* link is a key of bone_map.
C1_ExactlyOneRootWhenBuilt ==
  Completed("generate_joint_structure") =>
    /\ Cardinality(Roots) = 1
    /\ \A k \in DOMAIN bone_map :
         bone_map[k].parent /= None => bone_map[k].parent[1] \in DOMAIN bone_map

Sentinels == { i \in 1..Len(base_seq) : base_seq[i].parent_id = U32_MAX }
Dangling ==
  { i \in 1..Len(base_seq) :
      /\ base_seq[i].parent_id /= U32_MAX
      /\ \A j \in 1..Len(base_seq) : base_seq[j].id /= base_seq[i].parent_id }
BadTable == Cardinality(Sentinels) /= 1 \/ Dangling /= {}

\* C2 (as claimed): on a bone table with no sentinel bone, several sentinel
\* bones or a parent_id that matches no bone, the joint-tree build never
\* completes (no tree reaches the encoder).
C2_BadTableNeverBuilt ==
  (Completed("load_base_seq") /\ BadTable) => ~Completed("generate_joint_structure")

MatricesOf(rows) == UNION { { rows[i][j] : j \in 1..Len(rows[i]) } : i \in 1..Len(rows) }

\* C3 (as claimed): with key encoding Invalid, no transform computation
\* returns an identity (default) matrix for any bone or frame.
C3_InvalidEncodingYieldsNoMatrix ==
  header.key_type = "BoneKeyTypeInvalid" =>
    /\ \A i \in 1..Len(position_matrices) : position_matrices[i] /= Matrix4_identity
    /\ Matrix4_identity \notin MatricesOf(transformation_matrices)

\* C4: the output file exists only once decoding, the rest-pose and frame
\* tables, the joint tree and the XML are complete, and a run that panicked
\* in any of those steps has created no output file.
C4_OutputOnlyAfterAllSteps ==
  /\ out_file /= None =>
       /\ Completed("generate_joint_structure")
       /\ xml_content /= None
       /\ root_joint /= None
       /\ Len(base_seq) = header.bone_num
       /\ Len(invmat_seq) = header.bone_num
       /\ Len(key_seq) = header.bone_num
       /\ Len(position_matrices) = header.bone_num
       /\ Len(transformation_matrices) = header.bone_num
  /\ (pc = "panicked" /\ ~Completed("generate_joint_structure")) => out_file = None

C4_Witness ==
  /\ pc = "done"
  /\ header.bone_num >= 2
  /\ out_file = Some(<<[all |-> XmlDeclaration], [all |-> xml_content[1]]>>)

\* The on-disk value of a valid key encoding.
KeyValue(key_type) ==
  CASE key_type = "BoneKeyTypeMat43" -> 1
    [] key_type = "BoneKeyTypeMat44" -> 2
    [] key_type = "BoneKeyTypeQuaternion" -> 3
    [] OTHER -> 0

\* C5 (as claimed): with a valid key encoding, a stream shorter than the
\* header, bone records, inverse bind matrices, dummy records and key data
\* require never gets through decoding.
C5_ShortStreamFailsDecoding ==
  ( /\ Completed("load_header")
    /\ header.key_type /= "BoneKeyTypeInvalid"
    /\ Len(file) < RequiredLen(header.bone_num, header.frame_num, header.dummy_num,
                               KeyValue(header.key_type)) )
  => ~Completed("load_key_seq")

\* C6 (as claimed): after load_key_seq on a complete Mat4x3 (Mat4x4) file, the key
\* data of frame_num matrices per bone has been consumed and entry j of bone
\* b's track is the j-th matrix stored for that bone.
C6_MatrixTracksHoldStoredMatrices ==
  (Completed("load_key_seq")
     /\ header.key_type \in {"BoneKeyTypeMat43", "BoneKeyTypeMat44"}
     /\ Len(file) = RequiredLen(header.bone_num, header.frame_num, header.dummy_num,
                               KeyValue(header.key_type))) =>
    LET start == KeyStart(header.bone_num, header.dummy_num)
        frames == header.frame_num
        size == KeyBytesPerBone(KeyValue(header.key_type), 1)
    IN  /\ pos = start + header.bone_num * frames * size
        /\ \A b \in 1..header.bone_num, j \in 1..frames :
             LET off == start + ((b - 1) * frames + (j - 1)) * size
             IN  IF header.key_type = "BoneKeyTypeMat43"
                   THEN key_seq[b].mat43_seq[1][j] = Decode43(file, off)
                   ELSE key_seq[b].mat44_seq[1][j] = lwMatrix44_new(Decode44(file, off))

\* C7: after load_key_seq on a QuatPos file, bone b's positions are the
\* frame_num 3-float records at the start of its block and its quaternions
\* the frame_num 4-float records after them, with w the 4th stored float and
\* x, y, z the 1st, 2nd and 3rd.
C7_QuatPosTracks ==
  (Completed("load_key_seq") /\ header.key_type = "BoneKeyTypeQuaternion") =>
    LET start == KeyStart(header.bone_num, header.dummy_num)
        frames == header.frame_num
        block == frames * (VEC3_BYTES + QUAT_BYTES)
    IN  /\ pos = start + header.bone_num * block
        /\ Len(key_seq) = header.bone_num
        /\ \A b \in 1..header.bone_num :
             /\ key_seq[b].pos_seq /= None /\ Len(key_seq[b].pos_seq[1]) = frames
             /\ key_seq[b].quat_seq /= None /\ Len(key_seq[b].quat_seq[1]) = frames
             /\ \A j \in 1..frames :
                  LET p == start + (b - 1) * block + (j - 1) * VEC3_BYTES
                      q == start + (b - 1) * block + frames * VEC3_BYTES + (j - 1) * QUAT_BYTES
                      quat == key_seq[b].quat_seq[1][j]
                  IN  /\ key_seq[b].pos_seq[1][j]
                           = <<F32At(file, p), F32At(file, p + 4), F32At(file, p + 8)>>
                      /\ quat.x = F32At(file, q)
                      /\ quat.y = F32At(file, q + 4)
                      /\ quat.z = F32At(file, q + 8)
                      /\ quat.w = F32At(file, q + 12)

C7_Witness ==
  /\ Completed("load_key_seq")
  /\ header.key_type = "BoneKeyTypeQuaternion"
  /\ header.bone_num >= 2
  /\ header.frame_num >= 2

IsLookup(op) == lookup /= None /\ lookup[1].op = op
QuatLookups == {"get_transforms_for_frame", "get_transforms_for_frame_and_bone"}

\* C8 (as claimed): on a Mat4x4 dataset both quaternion-derived lookups fail
\* for every frame and bone argument.
C8_Mat44LookupsFail ==
  (lookup /= None /\ lookup[1].op \in QuatLookups
     /\ header.key_type = "BoneKeyTypeMat44") => ~lookup[1].result.ok

\* name is the bytes of buf before its first null byte (all of buf when it
\* has none).
BeforeFirstNull(name, buf) ==
  /\ Len(name) <= Len(buf)
  /\ \A k \in 1..Len(name) : name[k] = buf[k] /\ name[k] /= 0
  /\ Len(name) < Len(buf) => buf[Len(name) + 1] = 0

\* C9 (as claimed): for every 64-byte name buffer get_name returns exactly
\* the bytes before the first null byte.
C9_NameIsBytesBeforeNull ==
  IsLookup("get_name") =>
    /\ lookup[1].result.ok
    /\ BeforeFirstNull(lookup[1].result.name, base_seq[1].name)

\* C9 (amended): whenever get_name returns, it returns exactly the bytes
\* before the first null byte (so no null byte); it returns for every buffer
\* whose bytes before the first null are ASCII, and it panics only when some
\* byte before the first null is not ASCII (they are then no UTF-8).
C9_NameIsBytesBeforeNullIfUtf8 ==
  IsLookup("get_name") =>
    LET buf == base_seq[1].name
        r == lookup[1].result
        kept == { k \in 1..Len(buf) : \A x \in 1..k : buf[x] /= 0 }
    IN  /\ r.ok => BeforeFirstNull(r.name, buf)
        /\ (\A k \in kept : buf[k] < 128) => r.ok
        /\ ~r.ok => r.kind = "utf8"

C9_Witness ==
  /\ IsLookup("get_name")
  /\ lookup[1].result.ok
  /\ Len(lookup[1].result.name) = 1
  /\ base_seq[1].name[2] = 0
  /\ base_seq[1].name[3] /= 0

\* C10: load_header sets the four header fields from the little-endian u32
\* at byte offsets 4, 8, 12 and 16; 1, 2, 3 map to Mat43, Mat44 and
\* Quaternion and any other value to Invalid, and the decode fails only
\* when the file ends before byte 20.
C10_HeaderFromBytes ==
  /\ Completed("load_header") =>
       /\ LE32(header.bone_num) = SubSeq(file, 5, 8)
       /\ LE32(header.frame_num) = SubSeq(file, 9, 12)
       /\ LE32(header.dummy_num) = SubSeq(file, 13, 16)
       /\ header.key_type =
            CASE SubSeq(file, 17, 20) = <<1, 0, 0, 0>> -> "BoneKeyTypeMat43"
              [] SubSeq(file, 17, 20) = <<2, 0, 0, 0>> -> "BoneKeyTypeMat44"
              [] SubSeq(file, 17, 20) = <<3, 0, 0, 0>> -> "BoneKeyTypeQuaternion"
              [] OTHER -> "BoneKeyTypeInvalid"
  /\ (pc = "panicked" /\ err.at = "load_header") => Len(file) < HEADER_OFFSET + 16

C10_Witness ==
  /\ Completed("load_header")
  /\ SubSeq(file, 17, 20) = <<1, 1, 0, 0>>
  /\ header.key_type = "BoneKeyTypeInvalid"
  /\ header.bone_num >= 1
  /\ header.frame_num >= 1

\* C11: a second load_header on the same file, from whatever cursor the
\* sections read in between left, succeeds and yields the four header
\* fields of the first call.
C11_HeaderReloadSame ==
  IsLookup("load_header") =>
    /\ lookup[1].result.ok
    /\ lookup[1].result.header = lookup[1].before
    /\ (pc /= "panicked" => header = lookup[1].before)

C11_Witness ==
  /\ IsLookup("load_header")
  /\ lookup[1].from > KeyStart(header.bone_num, header.dummy_num)
  /\ header.bone_num >= 1
  /\ header.frame_num >= 1
  /\ header = lookup[1].before

\* ---- reading the generated document (a sequence of XmlWriter events)
IsStart(e, name) == "start" \in DOMAIN e /\ e.start = name
IsEnd(e) == "end" \in DOMAIN e
IsText(e) == "text" \in DOMAIN e
IsAttr(e, key) == "attr" \in DOMAIN e /\ e.attr = key
\* The document main writes, once generate_joint_structure has returned it.
Doc == xml_content[1]
\* The positions where an array element whose id is format!(fmt, _) opens.
ArraysOf(doc, array, fmt) ==
  { i \in 1..(Len(doc) - 1) :
      /\ IsStart(doc[i], array)
      /\ IsAttr(doc[i + 1], "id")
      /\ doc[i + 1].value.fmt = fmt }
\* The end of the element without children that opens at position i.
CloseOf(doc, i) ==
  LET ends == { j \in (i + 1)..Len(doc) : IsEnd(doc[j]) }
  IN  CHOOSE j \in ends : \A k \in ends : j <= k
\* The text nodes of that element, in order, and its count attribute.
TextsOf(doc, i) ==
  LET texts == SelectSeq(SubSeq(doc, i + 1, CloseOf(doc, i) - 1), LAMBDA e : IsText(e))
  IN  [n \in 1..Len(texts) |-> texts[n].text]
CountOf(doc, i) ==
  LET k == CHOOSE k \in (i + 1)..CloseOf(doc, i) : IsAttr(doc[k], "count") IN doc[k].value

\* C12: in the generated document every bone has a time-sample array, it
\* declares and holds frame_num values, and its i-th value (from 0) is
\* i / 25.0, whatever else the file holds.
C12_TimeSamples ==
  xml_content /= None =>
    LET inputs == ArraysOf(Doc, "float_array", "{}_pose_matrix-input-array")
    IN  /\ Cardinality(inputs) = header.bone_num
        /\ \A a \in inputs :
             /\ CountOf(Doc, a) = header.frame_num
             /\ TextsOf(Doc, a) = [n \in 1..header.frame_num |-> [num |-> n - 1, den |-> 25]]

C12_Witness ==
  /\ xml_content /= None
  /\ header.bone_num >= 2
  /\ header.frame_num >= 2
  /\ \E a \in ArraysOf(Doc, "float_array", "{}_pose_matrix-input-array") :
       Len(TextsOf(Doc, a)) = header.frame_num

\* The n-th smallest element of a set of positions.
NthOf(S, n) == CHOOSE k \in S : Cardinality({ x \in S : x < k }) = n - 1

StartsOf(doc) == { i \in 1..Len(doc) : "start" \in DOMAIN doc[i] }
EndsOf(doc) == { i \in 1..Len(doc) : IsEnd(doc[i]) }
OpenAt(doc, i) ==
  Cardinality({ x \in StartsOf(doc) : x < i }) - Cardinality({ x \in EndsOf(doc) : x < i })
\* Every start_element position of a document with the number of elements
\* open before it, and the numbers of start_element and end_element events.
Levels(doc) ==
  LET starts == StartsOf(doc)
      ends == EndsOf(doc)
  IN  [opened |-> { <<i, Cardinality(starts \cap 1..(i - 1))
                           - Cardinality(ends \cap 1..(i - 1))>> : i \in starts },
       starts |-> Cardinality(starts), ends |-> Cardinality(ends)]
\* The elements opened while exactly `depth` are open, in document order.
StartsAt(levels, depth) ==
  LET at == { e[1] : e \in { x \in levels.opened : x[2] = depth } }
  IN  Built([n \in 1..Cardinality(at) |->
               CHOOSE k \in at : Cardinality(at \cap 1..(k - 1)) = n - 1])
\* The value of attribute `key` of the element that opens at position i.
AttrOf(doc, i, key) ==
  LET k == CHOOSE k \in (i + 1)..Len(doc) :
             IsAttr(doc[k], key) /\ \A x \in (i + 1)..k : "attr" \in DOMAIN doc[x]
  IN  doc[k].value

\* C14: the document is one COLLADA element whose children are, in this
\* order and each closed before the next opens, asset,
\* library_visual_scenes, library_animations and scene; library_animations
\* holds one animation per bone in bone-table order, and scene instantiates
\* the visual scene that was emitted.
C14_SectionOrder ==
  xml_content /= None =>
    LET levels == Levels(Doc)
        top == StartsAt(levels, 1)
        blocks == StartsAt(levels, 2)
        animations == SelectSeq(blocks, LAMBDA i : IsStart(Doc[i], "animation"))
        scenes == SelectSeq(blocks, LAMBDA i : IsStart(Doc[i], "visual_scene"))
        instances == SelectSeq(blocks, LAMBDA i : IsStart(Doc[i], "instance_visual_scene"))
    IN  /\ StartsAt(levels, 0) = <<1>> /\ IsStart(Doc[1], "COLLADA")
        /\ levels.starts = levels.ends /\ IsEnd(Doc[Len(Doc)])
        /\ [n \in 1..Len(top) |-> Doc[top[n]].start]
             = <<"asset", "library_visual_scenes", "library_animations", "scene">>
        /\ Len(animations) = header.bone_num
        /\ \A b \in 1..Len(animations) :
             /\ top[3] < animations[b] /\ animations[b] < top[4]
             /\ AttrOf(Doc, animations[b], "id")
                  = Format("{}_pose_matrix", Sanitize(get_name(base_seq[b].name).name))
        /\ Len(scenes) = 1 /\ top[2] < scenes[1] /\ scenes[1] < top[3]
        /\ Len(instances) = 1 /\ top[4] < instances[1]
        /\ AttrOf(Doc, instances[1], "url") = "#Scene"
        /\ AttrOf(Doc, scenes[1], "id") = "Scene"

C14_Witness ==
  /\ xml_content /= None
  /\ header.bone_num = 2
  /\ header.frame_num >= 1
  /\ get_name(base_seq[1].name).name /= get_name(base_seq[2].name).name
  /\ Len(SelectSeq(StartsAt(Levels(Doc), 2), LAMBDA i : IsStart(Doc[i], "animation"))) = 2

\* C15: once both tables are computed on a dataset of a valid encoding with
\* frame_num >= 1, every bone's rest-pose matrix is entry 0 of its row of
\* the frame table; so a bone whose frame-0 transform is the identity has
\* the identity as rest pose.
C15_RestPoseIsFrameZero ==
  ( /\ Completed("generate_transformation_matrices_for_all_frames")
    /\ header.key_type /= "BoneKeyTypeInvalid"
    /\ header.frame_num >= 1 ) =>
    /\ Len(position_matrices) = header.bone_num
    /\ Len(transformation_matrices) = header.bone_num
    /\ \A b \in 1..header.bone_num :
         /\ position_matrices[b] = transformation_matrices[b][1]
         /\ transformation_matrices[b][1] = Matrix4_identity
              => position_matrices[b] = Matrix4_identity

C15_Witness ==
  /\ Completed("generate_transformation_matrices_for_all_frames")
  /\ header.key_type = "BoneKeyTypeMat43"
  /\ header.bone_num >= 1
  /\ header.frame_num >= 2
  /\ key_seq[1].mat43_seq[1][1] = Decode43(file, KeyStart(header.bone_num, header.dummy_num))
  /\ transformation_matrices[1][1] = Matrix4_identity
  /\ position_matrices[1] = Matrix4_identity
  /\ transformation_matrices[1][2] /= Matrix4_identity

\* The j-th dummy record of the file (j from 1), as DummyObject fields.
MarkerAt(j) ==
  LET p == DummyStart(header.bone_num) + (j - 1) * DummyRecordBytes
  IN  [id |-> U32At(file, p), parent_id |-> U32At(file, p + 4),
       position_matrix |-> Some(lwMatrix44_new(Decode44(file, p + 8)))]
\* The slots (joint key, position) of the dummies lists of bone_map.
Attached == { <<k, d>> : k \in DOMAIN bone_map, d \in 1..MaxDummies + 1 } \cap
            { kd \in (DOMAIN bone_map) \X (1..MaxDummies + 1) : kd[2] <= Len(bone_map[kd[1]].dummies) }

\* C16 (as claimed): once the joints are built on a dataset of a valid
\* encoding, every dummy record of the
\* file is in the dummies list of exactly one joint, a joint whose bone_id is
\* the record's parent_bone_id; each joint's list is the records of its bone
\* in file order; and the lists hold dummy_num markers in all.
C16_EveryMarkerAttachedOnce ==
  (Completed("generate_joint_structure") /\ header.key_type /= "BoneKeyTypeInvalid") =>
    LET markers == [j \in 1..header.dummy_num |-> MarkerAt(j)]
    IN  /\ \A j \in 1..header.dummy_num :
             LET holders == { k \in DOMAIN bone_map :
                                \E d \in 1..Len(bone_map[k].dummies) :
                                  bone_map[k].dummies[d] = markers[j] }
             IN  /\ Cardinality(holders) = 1
                 /\ \A k \in holders : bone_map[k].bone_id = markers[j].parent_id
        /\ \A k \in DOMAIN bone_map :
             bone_map[k].dummies
               = SelectSeq(markers, LAMBDA m : m.parent_id = bone_map[k].bone_id)
        /\ Cardinality(Attached) = header.dummy_num

\* The joint nodes of the scene graph: the positions where a <node> of type
\* JOINT opens; and the element a position is directly inside of.
JointNodes(doc) ==
  { i \in StartsOf(doc) : IsStart(doc[i], "node") /\ AttrOf(doc, i, "type") = "JOINT" }
Enclosing(doc, i) ==
  LET outer == { s \in StartsOf(doc) : s < i /\ OpenAt(doc, s) = OpenAt(doc, i) - 1 }
  IN  CHOOSE s \in outer : \A x \in outer : x <= s
\* A table with one sentinel bone, ids that are all different and parents
\* that are all ids of other bones of the table.
GoodTable ==
  /\ ~BadTable
  /\ \A i, j \in 1..Len(base_seq) : base_seq[i].id = base_seq[j].id => i = j
  /\ \A i \in 1..Len(base_seq) : base_seq[i].parent_id /= base_seq[i].id

\* C17 (as claimed): when the build completes on a well-formed table (valid
\* encoding), the scene graph has bone_num joint nodes, one per bone, and
\* the node of every bone with a parent is directly inside the node of its
\* parent bone.
C17_OneJointNodePerBone ==
  ( /\ Completed("generate_joint_structure")
    /\ header.key_type /= "BoneKeyTypeInvalid"
    /\ GoodTable ) =>
    LET nodes == JointNodes(Doc)
        name(b) == get_name(base_seq[b].name).name
        node(b) == CHOOSE i \in nodes : AttrOf(Doc, i, "name") = name(b)
    IN  /\ Cardinality(nodes) = header.bone_num
        /\ \A b \in 1..header.bone_num :
             /\ Cardinality({ i \in nodes : AttrOf(Doc, i, "name") = name(b) }) = 1
             /\ base_seq[b].parent_id /= U32_MAX =>
                  \E p \in 1..header.bone_num :
                    /\ base_seq[p].id = base_seq[b].parent_id
                    /\ Cardinality({ i \in nodes : AttrOf(Doc, i, "name") = name(p) }) = 1
                    /\ Enclosing(Doc, node(b)) = node(p)

\* C19 (as claimed): on every table that passes the linking loop the
\* emission of the scene graph from the root returns (write_joint_node does
\* not recurse without end), and no joint is emitted more than once.
C19_EmissionTerminates ==
  /\ ~(pc = "panicked" /\ err.at = "generate_joint_structure" /\ err.kind = "stack_overflow")
  /\ Completed("generate_joint_structure") =>
       \A k \in DOMAIN bone_map :
         Cardinality({ i \in JointNodes(Doc) : AttrOf(Doc, i, "name") = bone_map[k].bone_name })
           <= Cardinality({ x \in DOMAIN bone_map : bone_map[x].bone_name = bone_map[k].bone_name })

\* The 4x4 array whose row r is row r of the 4x3 array m followed by 0, and
\* by 1 in the last row; the n-th float of the record (n from 0).
Widen(m) ==
  [r \in 1..4 |-> <<m[r][1], m[r][2], m[r][3], IF r = 4 THEN F32_ONE ELSE F32_ZERO>>]
Stored(n) == F32At(file, 4 * n)

\* C18 (as claimed): get_matrix4 of a stored 4x3 matrix is lwMatrix44::new
\* of the widened array, the appended components being 0, 0, 0, 1; and the
\* 16 floats written for a 4x4 record are its 16 stored floats in their
\* on-disk order.
C18_ExpandAndWriteInDiskOrder ==
  /\ IsLookup("get_matrix4") =>
       /\ lookup[1].result = lwMatrix44_new(Widen(Decode43(file, 0)))
       /\ SubSeq(lookup[1].written, 13, 16) = <<F32_ZERO, F32_ZERO, F32_ZERO, F32_ONE>>
  /\ IsLookup("lwMatrix44_new") =>
       \A n \in 0..15 : lookup[1].written[n + 1] = Stored(n)

\* C18 (amended): as claimed for get_matrix4; and the 16 floats written for
\* a 4x4 record are its 16 stored floats transposed: the float stored at
\* place 4r + c is written at place 4c + r (and likewise the stored 4x3
\* float 3r + c at place 4c + r).
C18_ExpandAndWriteTransposed ==
  /\ IsLookup("get_matrix4") =>
       /\ lookup[1].result = lwMatrix44_new(Widen(Decode43(file, 0)))
       /\ SubSeq(lookup[1].written, 13, 16) = <<F32_ZERO, F32_ZERO, F32_ZERO, F32_ONE>>
       /\ \A r \in 0..3, c \in 0..2 : lookup[1].written[4 * c + r + 1] = Stored(3 * r + c)
  /\ IsLookup("lwMatrix44_new") =>
       \A r \in 0..3, c \in 0..3 : lookup[1].written[4 * c + r + 1] = Stored(4 * r + c)

C18_Witness ==
  /\ IsLookup("lwMatrix44_new")
  /\ Stored(1) = F32_ONE
  /\ lookup[1].written[5] = F32_ONE
  /\ lookup[1].written[2] /= F32_ONE

\* How often joint key k occurs in the children list of joint x.
ChildCount(x, k) ==
  Cardinality({ c \in 1..Len(bone_map[x].children) : bone_map[x].children[c] = k })

\* C20 (as claimed): once the linking loop has passed on a well-formed table
\* (valid encoding), every joint n with a parent_id other than the sentinel
\* has a parent joint whose bone_id is n.parent_id, occurs once in that
\* joint's children and in no other joint's, and holds the frame-0 matrix of
\* its own key track; also when the ids are not the table positions.
C20_LinksFollowIds ==
  ( /\ DOMAIN bone_map /= {}
    /\ header.key_type /= "BoneKeyTypeInvalid"
    /\ GoodTable ) =>
    \A k \in DOMAIN bone_map :
      bone_map[k].parent_id /= U32_MAX =>
        /\ bone_map[k].parent /= None
        /\ bone_map[bone_map[k].parent[1]].bone_id = bone_map[k].parent_id
        /\ ChildCount(bone_map[k].parent[1], k) = 1
        /\ \A x \in DOMAIN bone_map : x /= bone_map[k].parent[1] => ChildCount(x, k) = 0
        /\ bone_map[k].position_matrix
             = Some(LocalMatrix(key_seq[k + 1], header.key_type, 0).m)

====
